---- MODULE Spec2Model ----
(***************************************************************************)
(* Model of libhosty (src/libhosty.go): the in-memory hosts file document  *)
(* (HostsFile.HostsFileLines) and the operations that query and mutate it. *)
(*                                                                         *)
(* A HostsFileLine is modelled by the fields the operations read or write: *)
(* LineType, Address, Hostnames, Comment, IsCommented.  LineNumber, Parts, *)
(* Raw and Trimed are never read by any operation modelled here and are    *)
(* left out.  Row numbers are the 0-based Go indices; the TLA+ sequence    *)
(* position of row r is r + 1.                                             *)
(***************************************************************************)
EXTENDS Integers, Sequences, FiniteSets, TLC

VARIABLES lines,     \* h.HostsFileLines
          op,        \* the call the caller has just made: its name and arguments
          pre,       \* h.HostsFileLines as it was when that call started
          ret,       \* what that call returned: [idx, err]
          again,     \* TRUE when that call follows up the call made just before it
          before,    \* h.HostsFileLines as it was when the call it follows up started
          panicked,  \* TRUE once a call has raised a Go runtime panic
          pc,        \* concurrent callers: the statement each caller is at
          loc,       \* concurrent callers: each caller's call and local variables
          mutex,     \* concurrent callers: who holds h's sync.Mutex, or free
          ids        \* concurrent callers: the backing array of each row's Hostnames

seqVars == <<op, pre, ret, again, before, panicked>>
conVars == <<pc, loc, mutex, ids>>
vars == <<lines, op, pre, ret, again, before, panicked, pc, loc, mutex, ids>>

----------------------------------------------------------------------------
(* Bounds of the model *)

MaxSize == 4       \* largest document explored: its records plus their hostnames

----------------------------------------------------------------------------
(* Line types, src/libhosty.go:19-25 *)

UNKNOWN == 0
EMPTY == 10
COMMENT == 20
ADDRESS == 30

----------------------------------------------------------------------------
(* net.IP: a byte sequence of length 0 (nil), 4 or 16 *)

nil == <<>>

v4InV6Prefix == <<0, 0, 0, 0, 0, 0, 0, 0, 0, 0, 255, 255>>

IPv4(a, b, c, d) == v4InV6Prefix \o <<a, b, c, d>>

\* the address strings the callers pass to AddHost and AddHostRaw
IPStrings == {"10.0.0.1", "10.0.0.2", "bad"}

\* the address strings the callers pass to the ...ByAddress operations
AddressStrings == {"::ffff:10.0.0.1", "bad"}

\* net.ParseIP: the 16-byte form of a textual address, nil when the text
\* is not an address
ParseIP(s) ==
    CASE s = "10.0.0.1"        -> IPv4(10, 0, 0, 1)
      [] s = "::ffff:10.0.0.1" -> IPv4(10, 0, 0, 1)
      [] s = "10.0.0.2"        -> IPv4(10, 0, 0, 2)
      [] OTHER                 -> nil

\* net.IP.Equal: an IPv4 address and the same address in IPv6 form are equal
IPEqual(ip, x) ==
    IF Len(ip) = Len(x) THEN ip = x
    ELSE IF Len(ip) = 4 /\ Len(x) = 16
         THEN SubSeq(x, 1, 12) = v4InV6Prefix /\ ip = SubSeq(x, 13, 16)
    ELSE IF Len(ip) = 16 /\ Len(x) = 4
         THEN SubSeq(ip, 1, 12) = v4InV6Prefix /\ SubSeq(ip, 13, 16) = x
    ELSE FALSE

\* the net.IP values the callers pass to the ...ByIP operations
IPValues == {nil, <<10, 0, 0, 1>>, IPv4(10, 0, 0, 2)}

----------------------------------------------------------------------------
(* hostnames and strings.ToLower *)

UpperCase == <<"A", "B">>
LowerCase == <<"a", "b">>

\* the hostnames the callers pass to AddHost and AddHostRaw
HostStrings == {"a", "B"}

\* the hostnames the callers pass to the ...ByHostname operations
KeyStrings == {"a", "b", "B"}

ToLower(s) ==
    IF \E i \in 1..Len(UpperCase) : UpperCase[i] = s
    THEN LowerCase[CHOOSE i \in 1..Len(UpperCase) : UpperCase[i] = s]
    ELSE s

\* the comments the callers pass
CommentStrings == {"", "x"}

----------------------------------------------------------------------------
(* records *)

\* HostsFileLine{LineType: ADDRESS, Address: ip, Hostnames: []string{hostname},
\*               Comment: comment, IsCommented: false}
NewAddressLine(ip, hostname, comment) ==
    [LineType |-> ADDRESS, Address |-> ip, Hostnames |-> <<hostname>>,
     Comment |-> comment, IsCommented |-> FALSE]

\* HostsFileLine{LineType: COMMENT, ...}
NewCommentLine ==
    [LineType |-> COMMENT, Address |-> nil, Hostnames |-> <<>>,
     Comment |-> "", IsCommented |-> FALSE]

\* HostsFileLine{LineType: EMPTY}
NewEmptyLine ==
    [LineType |-> EMPTY, Address |-> nil, Hostnames |-> <<>>,
     Comment |-> "", IsCommented |-> FALSE]

Min(S) == CHOOSE x \in S : \A y \in S : x <= y

\* append(s[:i], s[i+1:]...) for a 0-based i with i < len(s)
RemoveAt(s, i) == SubSeq(s, 1, i) \o SubSeq(s, i + 2, Len(s))

\* what append(s[:i], s[i+1:]...) leaves in the backing array arr of a
\* slice of length m: the elements after i move one place down, the
\* element at m-1 and everything behind it stay
ShiftLeft(arr, i, m) ==
    [j \in 1..Len(arr) |-> IF j >= i + 1 /\ j <= m - 1 THEN arr[j + 1] ELSE arr[j]]

----------------------------------------------------------------------------
(* lookups *)

\* the rows (0-based) whose hostname list holds hostname
RowsWithHostname(ls, hostname) ==
    {r \in 0..(Len(ls) - 1) :
        \E k \in 1..Len(ls[r + 1].Hostnames) : ls[r + 1].Hostnames[k] = hostname}

\* the rows (0-based) whose address is Equal to ip
RowsWithIP(ls, ip) ==
    {r \in 0..(Len(ls) - 1) : IPEqual(ip, ls[r + 1].Address)}

LookupByHostname(ls, hostname) ==
    IF RowsWithHostname(ls, hostname) # {}
    THEN LET idx == Min(RowsWithHostname(ls, hostname))
         IN [idx |-> idx, addr |-> ls[idx + 1].Address, err |-> "nil"]
    ELSE [idx |-> -1, addr |-> nil, err |-> "Hostname not found"]

----------------------------------------------------------------------------
(* outcomes of a call *)

\* the outcome of a call that returns err and leaves the document alone
Fail(ls, err) == [lines |-> ls, idx |-> -1, err |-> err, panic |-> FALSE]

\* the outcome of a call that stops in a runtime panic
Panic(ls) == [lines |-> ls, idx |-> -1, err |-> "panic", panic |-> TRUE]

\* the lookups leave the document alone and return the first matching row
Found(ls, rows, err) ==
    IF rows # {}
    THEN [lines |-> ls, idx |-> Min(rows), err |-> "nil", panic |-> FALSE]
    ELSE Fail(ls, err)

GetHostsFileLineByIPBody(ls, ip) == Found(ls, RowsWithIP(ls, ip), "nil")

GetHostsFileLineByAddressBody(ls, address) ==
    GetHostsFileLineByIPBody(ls, ParseIP(address))

GetHostsFileLineByHostnameBody(ls, hostname) ==
    Found(ls, RowsWithHostname(ls, hostname), "nil")

LookupByHostnameBody(ls, hostname) ==
    [lines |-> ls, idx |-> LookupByHostname(ls, hostname).idx,
     err |-> LookupByHostname(ls, hostname).err, panic |-> FALSE]

----------------------------------------------------------------------------
(* RemoveRow *)

\* a variant that keeps h.HostsFileLines[:row] and loses the rows behind row
RemoveRowBodyTruncates(ls, row) ==
    IF row < Len(ls)
    THEN IF row < 0
         THEN [lines |-> ls, panic |-> TRUE]
         ELSE [lines |-> SubSeq(ls, 1, row), panic |-> FALSE]
    ELSE [lines |-> ls, panic |-> FALSE]

\* the slice expression h.HostsFileLines[:row] panics for a negative row
RemoveRowBody(ls, row) ==
    IF row < Len(ls)
    THEN IF row < 0
         THEN [lines |-> ls, panic |-> TRUE]
         ELSE [lines |-> RemoveAt(ls, row), panic |-> FALSE]
    ELSE [lines |-> ls, panic |-> FALSE]

----------------------------------------------------------------------------
(* AddHostRaw *)

\* a variant that appends the record without looking at the parsed address
AddHostRawBodyUnchecked(ls, ipRaw, fqdnRaw, comment) ==
    [lines |-> Append(ls, NewAddressLine(ParseIP(ipRaw), ToLower(fqdnRaw), comment)),
     idx |-> Len(ls), err |-> "nil", panic |-> FALSE]

AddHostRawBody(ls, ipRaw, fqdnRaw, comment) ==
    LET hostname == ToLower(fqdnRaw)
        ip       == ParseIP(ipRaw)
    IN IF ip # nil
       THEN [lines |-> Append(ls, NewAddressLine(ip, hostname, comment)),
             idx |-> Len(ls), err |-> "nil", panic |-> FALSE]
       ELSE [lines |-> ls, idx |-> -1, err |-> "Cannot parse IP address",
             panic |-> FALSE]

----------------------------------------------------------------------------
(* AddHost *)

\* The loop of AddHost that takes hostname off row idx.  The range clause
\* evaluates h.HostsFileLines[idx].Hostnames once: the loop runs over the
\* original length and reads each hn from the backing array arr, which the
\* in-place append rewrites while row idx is still the row the loop started
\* on (live).  After RemoveRow(idx) the expressions h.HostsFileLines[idx]
\* denote whatever row moved into position idx, or index out of range.
RECURSIVE DetachLoop(_, _, _, _, _, _)
DetachLoop(ls, idx, arr, live, hostIdx, hostname) ==
    IF hostIdx >= Len(arr)
    THEN [lines |-> ls, panic |-> FALSE]
    ELSE IF arr[hostIdx + 1] # hostname
    THEN DetachLoop(ls, idx, arr, live, hostIdx + 1, hostname)
    ELSE IF idx >= Len(ls)
    THEN [lines |-> ls, panic |-> TRUE]
    ELSE LET H   == ls[idx + 1].Hostnames
             cut == Len(H) > 1
         IN IF cut /\ hostIdx + 1 > Len(H)
            THEN [lines |-> ls, panic |-> TRUE]
            ELSE LET ls1  == IF cut
                             THEN [ls EXCEPT ![idx + 1].Hostnames = RemoveAt(H, hostIdx)]
                             ELSE ls
                     arr1 == IF cut /\ live THEN ShiftLeft(arr, hostIdx, Len(H)) ELSE arr
                     drop == Len(ls1[idx + 1].Hostnames) <= 1
                     ls2  == IF drop THEN RemoveRowBody(ls1, idx).lines ELSE ls1
                 IN DetachLoop(ls2, idx, arr1, live /\ ~drop, hostIdx + 1, hostname)

\* a variant of the detachment that leaves the old record as it is
DetachHostnameSkipped(ls, idx, hostname) ==
    [lines |-> ls, panic |-> FALSE]

\* a variant of the detachment that takes the hostname off the old record
\* and never deletes the record
DetachHostnameKeepsRow(ls, idx, hostname) ==
    [lines |-> [ls EXCEPT ![idx + 1].Hostnames =
                   SelectSeq(@, LAMBDA hn : hn # hostname)],
     panic |-> FALSE]

DetachHostname(ls, idx, hostname) ==
    DetachLoop(ls, idx, ls[idx + 1].Hostnames, TRUE, 0, hostname)

\* a variant that always creates a new host line
AttachHostnameNewLine(ls, ip, hostname, comment) ==
    [lines |-> Append(ls, NewAddressLine(ip, hostname, comment)),
     idx |-> Len(ls), err |-> "nil", panic |-> FALSE]

\* "if we alredy have the address, just add the hostname to that line",
\* otherwise "create new host line"
AttachHostname(ls, ip, hostname, comment) ==
    IF \E r \in 0..(Len(ls) - 1) : IPEqual(ls[r + 1].Address, ip)
    THEN LET idx == Min({r \in 0..(Len(ls) - 1) : IPEqual(ls[r + 1].Address, ip)})
         IN [lines |-> [ls EXCEPT ![idx + 1].Hostnames = Append(@, hostname),
                                  ![idx + 1].Comment =
                                      IF comment # "" THEN comment ELSE @],
             idx |-> idx, err |-> "nil", panic |-> FALSE]
    ELSE [lines |-> Append(ls, NewAddressLine(ip, hostname, comment)),
          idx |-> Len(ls), err |-> "nil", panic |-> FALSE]

\* a variant that writes the comment even when it is empty
KeepAssociationOverwrites(ls, idx, comment) ==
    [lines |-> [ls EXCEPT ![idx + 1].Comment = comment],
     idx |-> idx, err |-> "nil", panic |-> FALSE]

\* "if actual ip is the same as the given one, we are done"
KeepAssociation(ls, idx, comment) ==
    [lines |-> IF comment # ""
               THEN [ls EXCEPT ![idx + 1].Comment = comment]
               ELSE ls,
     idx |-> idx, err |-> "nil", panic |-> FALSE]

AddHostBody(ls, ipRaw, fqdnRaw, comment) ==
    LET hostname == ToLower(fqdnRaw)
        ip       == ParseIP(ipRaw)
        lk       == LookupByHostname(ls, hostname)
    IN IF ip # nil
       THEN IF lk.err = "nil" /\ IPEqual(lk.addr, ip)
            THEN KeepAssociation(ls, lk.idx, comment)
            ELSE LET d == IF lk.err = "nil"
                          THEN DetachHostname(ls, lk.idx, hostname)
                          ELSE [lines |-> ls, panic |-> FALSE]
                 IN IF d.panic
                    THEN Panic(d.lines)
                    ELSE AttachHostname(d.lines, ip, hostname, comment)
       ELSE [lines |-> ls, idx |-> -1, err |-> "Cannot parse IP address",
             panic |-> FALSE]

----------------------------------------------------------------------------
(* AddComment, AddEmpty *)

AddCommentBody(ls) ==
    [lines |-> Append(ls, NewCommentLine), idx |-> Len(ls), err |-> "nil",
     panic |-> FALSE]

\* a variant that puts the record in front of the document
AddEmptyBodyInFront(ls) ==
    [lines |-> <<NewEmptyLine>> \o ls, idx |-> 0, err |-> "nil", panic |-> FALSE]

AddEmptyBody(ls) ==
    [lines |-> Append(ls, NewEmptyLine), idx |-> Len(ls), err |-> "nil",
     panic |-> FALSE]

----------------------------------------------------------------------------
(* Comment... and Uncomment... *)

\* a variant that writes the flag of every row
SetIsCommentedEveryRow(ls, idx, b) ==
    [lines |-> [i \in 1..Len(ls) |-> [ls[i] EXCEPT !.IsCommented = b]],
     idx |-> -1, err |-> "nil", panic |-> FALSE]

\* h.HostsFileLines[idx].IsCommented = b; return nil
SetIsCommented(ls, idx, b) ==
    [lines |-> [ls EXCEPT ![idx + 1].IsCommented = b], idx |-> -1,
     err |-> "nil", panic |-> FALSE]

\* a variant that uncomments the record it finds commented
CommentByRowBodyFlips(ls, row) ==
    IF row <= Len(ls)
    THEN IF row < 0 \/ row >= Len(ls)
         THEN Panic(ls)
         ELSE IF ls[row + 1].LineType = ADDRESS
              THEN SetIsCommented(ls, row, ~ls[row + 1].IsCommented)
              ELSE Fail(ls, "ErrNotAnAddressLine")
    ELSE Fail(ls, "ErrUnknown")

\* h.HostsFileLines[row] is an index out of range for row < 0 and row = len
CommentByRowBody(ls, row) ==
    IF row <= Len(ls)
    THEN IF row < 0 \/ row >= Len(ls)
         THEN Panic(ls)
         ELSE IF ls[row + 1].LineType = ADDRESS
              THEN IF ls[row + 1].IsCommented # TRUE
                   THEN SetIsCommented(ls, row, TRUE)
                   ELSE Fail(ls, "ErrAlredyCommentedLine")
              ELSE Fail(ls, "ErrNotAnAddressLine")
    ELSE Fail(ls, "ErrUnknown")

\* the loop body returns in its first iteration, whatever row 0 holds
CommentByIPBody(ls, ip) ==
    IF Len(ls) > 0
    THEN IF IPEqual(ip, ls[1].Address)
         THEN IF ls[1].IsCommented # TRUE
              THEN SetIsCommented(ls, 0, TRUE)
              ELSE Fail(ls, "ErrAlredyCommentedLine")
         ELSE Fail(ls, "ErrAddressNotFound")
    ELSE Fail(ls, "ErrUnknown")

CommentByAddressBody(ls, address) == CommentByIPBody(ls, ParseIP(address))

\* the outer loop body returns in its first iteration, whatever row 0 holds
CommentByHostnameBody(ls, hostname) ==
    IF Len(ls) > 0
    THEN IF \E k \in 1..Len(ls[1].Hostnames) : ls[1].Hostnames[k] = hostname
         THEN IF ls[1].IsCommented # TRUE
              THEN SetIsCommented(ls, 0, TRUE)
              ELSE Fail(ls, "ErrAlredyCommentedLine")
         ELSE Fail(ls, "ErrHostnameNotFound")
    ELSE Fail(ls, "ErrUnknown")

UncommentByRowBody(ls, row) ==
    IF row <= Len(ls)
    THEN IF row < 0 \/ row >= Len(ls)
         THEN Panic(ls)
         ELSE IF ls[row + 1].LineType = ADDRESS
              THEN IF ls[row + 1].IsCommented # FALSE
                   THEN SetIsCommented(ls, row, FALSE)
                   ELSE Fail(ls, "ErrAlredyUncommentedLine")
              ELSE Fail(ls, "ErrNotAnAddressLine")
    ELSE Fail(ls, "ErrUnknown")

UncommentByIPBody(ls, ip) ==
    IF Len(ls) > 0
    THEN IF IPEqual(ip, ls[1].Address)
         THEN IF ls[1].IsCommented # FALSE
              THEN SetIsCommented(ls, 0, FALSE)
              ELSE Fail(ls, "ErrAlredyUncommentedLine")
         ELSE Fail(ls, "ErrNotAnAddressLine")
    ELSE Fail(ls, "ErrUnknown")

UncommentByAddressBody(ls, address) == UncommentByIPBody(ls, ParseIP(address))

UncommentByHostnameBody(ls, hostname) ==
    IF Len(ls) > 0
    THEN IF \E k \in 1..Len(ls[1].Hostnames) : ls[1].Hostnames[k] = hostname
         THEN IF ls[1].IsCommented # FALSE
              THEN SetIsCommented(ls, 0, FALSE)
              ELSE Fail(ls, "ErrAlredyUncommentedLine")
         ELSE Fail(ls, "ErrHostnameNotFound")
    ELSE Fail(ls, "ErrUnknown")

----------------------------------------------------------------------------
(* the state machine *)

NoCall == [name |-> "none", ipRaw |-> "", fqdnRaw |-> "", comment |-> "",
           row |-> 0, ip |-> nil]

RECURSIVE NameCount(_)
NameCount(ls) ==
    IF ls = <<>> THEN 0 ELSE Len(Head(ls).Hostnames) + NameCount(Tail(ls))

WithinBounds(ls) == Len(ls) + NameCount(ls) <= MaxSize

\* the call o follows up the call last: an AddHost repeated with the same
\* arguments, or the UncommentByRow of the row that CommentByRow was called on
FollowsUp(last, o) ==
    \/ last = o /\ o.name = "AddHost"
    \/ /\ last.name = "CommentByRow"
       /\ o.name = "UncommentByRow"
       /\ o.row = last.row

\* The caller makes the call o, whose outcome is r.  A caller that still
\* holds the outcome of a call either follows that call up at once or lets
\* go of the outcome first (Return).
Call(o, r) ==
    /\ ~panicked
    /\ op = NoCall \/ FollowsUp(op, o)
    /\ WithinBounds(r.lines)
    /\ lines' = r.lines
    /\ pre' = lines
    /\ op' = o
    /\ ret' = [idx |-> r.idx, err |-> r.err]
    /\ again' = (op # NoCall)
    /\ before' = IF op # NoCall THEN pre ELSE lines
    /\ panicked' = r.panic
    /\ UNCHANGED conVars

NoResult == [idx |-> -1, err |-> "nil"]

\* the caller lets go of the outcome of its last call
Return ==
    /\ ~panicked
    /\ op # NoCall
    /\ op' = NoCall
    /\ pre' = lines
    /\ ret' = NoResult
    /\ again' = FALSE
    /\ before' = lines
    /\ UNCHANGED <<lines, panicked>>
    /\ UNCHANGED conVars

\* the concurrent callers of one HostsFile, one call each
Procs == {1, 2}

\* the mutex is unlocked
free == 0

\* the local variables of a caller that makes call: the row it works on
\* (idx, row), the position, the copy and the backing array of the range
\* over Hostnames (hostIdx, arr, arrId), the statement to run once the
\* mutex is acquired and the one after its release (body, after), the
\* record to append (rec) and the h.HostsFileLines that append has read
\* (snap, snapIds)
Locals(call) ==
    [call |-> call, idx |-> -1, row |-> call.row, hostIdx |-> 0, arr |-> <<>>,
     arrId |-> 0, body |-> "", after |-> "", rec |-> NewEmptyLine,
     snap |-> <<>>, snapIds |-> <<>>]

\* the row numbers the callers pass
Rows == -1..(MaxSize - 1)

\* a new HostsFile, used by one caller at a time: no concurrent callers
Init ==
    /\ lines = <<>>
    /\ op = NoCall
    /\ pre = <<>>
    /\ ret = NoResult
    /\ again = FALSE
    /\ before = <<>>
    /\ panicked = FALSE
    /\ pc = <<>>
    /\ loc = <<>>
    /\ mutex = free
    /\ ids = <<>>

AddHost ==
    \E ipRaw \in IPStrings, fqdnRaw \in HostStrings, comment \in CommentStrings :
        Call([NoCall EXCEPT !.name = "AddHost", !.ipRaw = ipRaw,
                            !.fqdnRaw = fqdnRaw, !.comment = comment],
             AddHostBody(lines, ipRaw, fqdnRaw, comment))

AddHostRaw ==
    \E ipRaw \in IPStrings, fqdnRaw \in HostStrings, comment \in CommentStrings :
        Call([NoCall EXCEPT !.name = "AddHostRaw", !.ipRaw = ipRaw,
                            !.fqdnRaw = fqdnRaw, !.comment = comment],
             AddHostRawBody(lines, ipRaw, fqdnRaw, comment))

RemoveRow ==
    \E row \in Rows :
        LET r == RemoveRowBody(lines, row)
        IN Call([NoCall EXCEPT !.name = "RemoveRow", !.row = row],
                [lines |-> r.lines, idx |-> -1, err |-> "nil", panic |-> r.panic])

AddComment ==
    Call([NoCall EXCEPT !.name = "AddComment"], AddCommentBody(lines))

AddEmpty ==
    Call([NoCall EXCEPT !.name = "AddEmpty"], AddEmptyBody(lines))

CommentByRow ==
    \E row \in Rows :
        Call([NoCall EXCEPT !.name = "CommentByRow", !.row = row],
             CommentByRowBody(lines, row))

CommentByIP ==
    \E ip \in IPValues :
        Call([NoCall EXCEPT !.name = "CommentByIP", !.ip = ip],
             CommentByIPBody(lines, ip))

CommentByAddress ==
    \E address \in AddressStrings :
        Call([NoCall EXCEPT !.name = "CommentByAddress", !.ipRaw = address],
             CommentByAddressBody(lines, address))

CommentByHostname ==
    \E hostname \in KeyStrings :
        Call([NoCall EXCEPT !.name = "CommentByHostname", !.fqdnRaw = hostname],
             CommentByHostnameBody(lines, hostname))

UncommentByRow ==
    \E row \in Rows :
        Call([NoCall EXCEPT !.name = "UncommentByRow", !.row = row],
             UncommentByRowBody(lines, row))

UncommentByIP ==
    \E ip \in IPValues :
        Call([NoCall EXCEPT !.name = "UncommentByIP", !.ip = ip],
             UncommentByIPBody(lines, ip))

UncommentByAddress ==
    \E address \in AddressStrings :
        Call([NoCall EXCEPT !.name = "UncommentByAddress", !.ipRaw = address],
             UncommentByAddressBody(lines, address))

UncommentByHostname ==
    \E hostname \in KeyStrings :
        Call([NoCall EXCEPT !.name = "UncommentByHostname", !.fqdnRaw = hostname],
             UncommentByHostnameBody(lines, hostname))

GetHostsFileLineByIP ==
    \E ip \in IPValues :
        Call([NoCall EXCEPT !.name = "GetHostsFileLineByIP", !.ip = ip],
             GetHostsFileLineByIPBody(lines, ip))

GetHostsFileLineByAddress ==
    \E address \in AddressStrings :
        Call([NoCall EXCEPT !.name = "GetHostsFileLineByAddress", !.ipRaw = address],
             GetHostsFileLineByAddressBody(lines, address))

GetHostsFileLineByHostname ==
    \E hostname \in KeyStrings :
        Call([NoCall EXCEPT !.name = "GetHostsFileLineByHostname",
                            !.fqdnRaw = hostname],
             GetHostsFileLineByHostnameBody(lines, hostname))

CallLookupByHostname ==
    \E hostname \in KeyStrings :
        Call([NoCall EXCEPT !.name = "LookupByHostname", !.fqdnRaw = hostname],
             LookupByHostnameBody(lines, hostname))

Next ==
    \/ AddHost
    \/ AddHostRaw
    \/ AddComment
    \/ AddEmpty
    \/ RemoveRow
    \/ CommentByRow
    \/ CommentByIP
    \/ CommentByAddress
    \/ CommentByHostname
    \/ UncommentByRow
    \/ UncommentByIP
    \/ UncommentByAddress
    \/ UncommentByHostname
    \/ GetHostsFileLineByIP
    \/ GetHostsFileLineByAddress
    \/ GetHostsFileLineByHostname
    \/ CallLookupByHostname
    \/ Return

Spec == Init /\ [][Next]_vars

\* callers that use AddHost only
NextAddHost ==
    \/ AddHost
    \/ Return

SpecAddHost == Init /\ [][NextAddHost]_vars

----------------------------------------------------------------------------
(* Concurrent callers.  Each caller of Procs makes one call and runs it    *)
(* statement by statement: a lookup or a scan of the document is one step, *)
(* Lock, the statements of a locked section and Unlock are steps of their  *)
(* own, an unlocked write is one step, and                                 *)
(* h.HostsFileLines = append(h.HostsFileLines, hfl) is a read of the       *)
(* sequence followed by a write of the extended sequence.  The calls are   *)
(* made with addresses that parse.  ids names the backing array of each    *)
(* row's Hostnames: the copy a range loop runs over follows the in-place   *)
(* cuts made in that array, and append(Hostnames, hostname) gives the row  *)
(* an array of its own.  A panic ends the caller: a deferred Unlock runs,  *)
(* an Unlock that is not deferred does not.                                *)

Hostname(p) == ToLower(loc[p].call.fqdnRaw)
IP(p) == ParseIP(loc[p].call.ipRaw)

\* where a call starts, and with which local variables
FirstStatement(call) ==
    CASE call.name = "AddHost" -> "lookup"
      [] call.name = "AddHostRaw" -> "read"
      [] OTHER -> "lock"

StartLocals(call) ==
    CASE call.name = "AddHostRaw" ->
            [Locals(call) EXCEPT !.rec = NewAddressLine(ParseIP(call.ipRaw),
                                     ToLower(call.fqdnRaw), call.comment)]
      [] call.name = "AddComment" ->
            [Locals(call) EXCEPT !.body = "read", !.after = "done",
                                 !.rec = NewCommentLine]
      [] call.name = "AddEmpty" ->
            [Locals(call) EXCEPT !.body = "read", !.after = "done",
                                 !.rec = NewEmptyLine]
      [] call.name = "RemoveRow" ->
            [Locals(call) EXCEPT !.body = "remove", !.after = "done"]
      [] call.name = "AddHost" -> Locals(call)
      [] OTHER -> [Locals(call) EXCEPT !.body = "toggle", !.after = "done"]

\* the callers are about to run calls on the document ls
Started(ls, calls) ==
    /\ lines = ls
    /\ ids = [i \in 1..Len(ls) |-> Cardinality(Procs) + i]
    /\ pc = [p \in Procs |-> FirstStatement(calls[p])]
    /\ loc = [p \in Procs |-> StartLocals(calls[p])]
    /\ mutex = free
    /\ op = NoCall
    /\ pre = ls
    /\ ret = NoResult
    /\ again = FALSE
    /\ before = ls
    /\ panicked = FALSE

\* caller p goes on to statement label with the local variables l
Goto(p, label, l) ==
    /\ pc' = [pc EXCEPT ![p] = label]
    /\ loc' = [loc EXCEPT ![p] = l]

\* h.Lock()
Acquire(p) ==
    /\ pc[p] = "lock"
    /\ mutex = free
    /\ mutex' = p
    /\ Goto(p, loc[p].body, loc[p])
    /\ UNCHANGED <<lines, ids, seqVars>>

\* h.Unlock(), deferred or not
Release(p) ==
    /\ pc[p] = "unlock"
    /\ mutex' = free
    /\ Goto(p, loc[p].after, loc[p])
    /\ UNCHANGED <<lines, ids, seqVars>>

\* AddHost, lines 307-316: LookupByHostname and the comparison of its result
Lookup(p) ==
    /\ pc[p] = "lookup"
    /\ LET lk == LookupByHostname(lines, Hostname(p))
       IN Goto(p, IF lk.err # "nil" THEN "scan"
                  ELSE IF ~IPEqual(lk.addr, IP(p)) THEN "range"
                  ELSE IF loc[p].call.comment # "" THEN "comment"
                  ELSE "done",
               [loc[p] EXCEPT !.idx = lk.idx])
    /\ UNCHANGED <<lines, ids, mutex, seqVars>>

\* AddHost, lines 313 and 345: h.HostsFileLines[idx].Comment = comment
WriteComment(p) ==
    /\ pc[p] = "comment"
    /\ IF loc[p].idx < Len(lines)
       THEN /\ lines' = [lines EXCEPT ![loc[p].idx + 1].Comment = loc[p].call.comment]
            /\ Goto(p, "done", loc[p])
       ELSE /\ Goto(p, "panicked", loc[p])
            /\ UNCHANGED lines
    /\ UNCHANGED <<ids, mutex, seqVars>>

\* AddHost, line 319: the range clause evaluates h.HostsFileLines[idx].Hostnames
Range(p) ==
    /\ pc[p] = "range"
    /\ IF loc[p].idx < Len(lines)
       THEN Goto(p, "loop", [loc[p] EXCEPT !.arr = lines[loc[p].idx + 1].Hostnames,
                                           !.arrId = ids[loc[p].idx + 1],
                                           !.hostIdx = 0])
       ELSE Goto(p, "panicked", loc[p])
    /\ UNCHANGED <<lines, ids, mutex, seqVars>>

\* AddHost, lines 319-320: the loop goes to the next hn equal to hostname
Loop(p) ==
    /\ pc[p] = "loop"
    /\ LET found == {k \in loc[p].hostIdx..(Len(loc[p].arr) - 1) :
                        loc[p].arr[k + 1] = Hostname(p)}
       IN IF found # {}
          THEN Goto(p, "len321", [loc[p] EXCEPT !.hostIdx = Min(found)])
          ELSE Goto(p, "scan", loc[p])
    /\ UNCHANGED <<lines, ids, mutex, seqVars>>

\* AddHost, line 321: len(h.HostsFileLines[idx].Hostnames) > 1
Len321(p) ==
    /\ pc[p] = "len321"
    /\ IF loc[p].idx >= Len(lines)
       THEN Goto(p, "panicked", loc[p])
       ELSE IF Len(lines[loc[p].idx + 1].Hostnames) > 1
       THEN Goto(p, "lock", [loc[p] EXCEPT !.body = "cut", !.after = "len328"])
       ELSE Goto(p, "len328", loc[p])
    /\ UNCHANGED <<lines, ids, mutex, seqVars>>

\* AddHost, line 323, between Lock and Unlock: the hostname is cut out of
\* the list in place
Cut(p) ==
    /\ pc[p] = "cut"
    /\ IF loc[p].idx >= Len(lines)
       THEN /\ Goto(p, "panicked", loc[p])
            /\ UNCHANGED lines
       ELSE LET H == lines[loc[p].idx + 1].Hostnames
                a == ids[loc[p].idx + 1]
            IN IF loc[p].hostIdx + 1 > Len(H)
               THEN /\ Goto(p, "panicked", loc[p])
                    /\ UNCHANGED lines
               ELSE /\ lines' = [lines EXCEPT ![loc[p].idx + 1].Hostnames =
                                     RemoveAt(H, loc[p].hostIdx)]
                    /\ pc' = [pc EXCEPT ![p] = "unlock"]
                    /\ loc' = [q \in Procs |->
                                 IF loc[q].arrId = a
                                 THEN [loc[q] EXCEPT !.arr =
                                          ShiftLeft(@, loc[p].hostIdx, Len(H))]
                                 ELSE loc[q]]
    /\ UNCHANGED <<ids, mutex, seqVars>>

\* AddHost, lines 328-329: len(h.HostsFileLines[idx].Hostnames) <= 1, then
\* the call of RemoveRow(idx) or the next iteration
Len328(p) ==
    /\ pc[p] = "len328"
    /\ IF loc[p].idx >= Len(lines)
       THEN Goto(p, "panicked", loc[p])
       ELSE IF Len(lines[loc[p].idx + 1].Hostnames) <= 1
       THEN Goto(p, "lock", [loc[p] EXCEPT !.body = "remove", !.after = "loop",
                                          !.row = loc[p].idx,
                                          !.hostIdx = @ + 1])
       ELSE Goto(p, "loop", [loc[p] EXCEPT !.hostIdx = @ + 1])
    /\ UNCHANGED <<lines, ids, mutex, seqVars>>

\* RemoveRow, lines 241-243, between Lock and the deferred Unlock
Remove(p) ==
    /\ pc[p] = "remove"
    /\ LET r == RemoveRowBody(lines, loc[p].row)
       IN IF r.panic
          THEN /\ Goto(p, "panicked", loc[p])
               /\ mutex' = free
               /\ UNCHANGED <<lines, ids>>
          ELSE /\ Goto(p, "unlock", loc[p])
               /\ lines' = r.lines
               /\ ids' = IF Len(r.lines) < Len(lines)
                         THEN RemoveAt(ids, loc[p].row)
                         ELSE ids
               /\ UNCHANGED mutex
    /\ UNCHANGED seqVars

\* AddHost, lines 336-337 and 353-360: the search for a record with the
\* address, and the new host line when there is none
Scan(p) ==
    /\ pc[p] = "scan"
    /\ LET rows == RowsWithIP(lines, IP(p))
       IN IF rows # {}
          THEN Goto(p, "lock",
                    [loc[p] EXCEPT !.idx = Min(rows), !.body = "attach",
                                   !.after = IF loc[p].call.comment # ""
                                             THEN "comment" ELSE "done"])
          ELSE Goto(p, "read",
                    [loc[p] EXCEPT !.rec = NewAddressLine(IP(p), Hostname(p),
                                                          loc[p].call.comment)])
    /\ UNCHANGED <<lines, ids, mutex, seqVars>>

\* AddHost, line 339, between Lock and Unlock: the hostname is appended to
\* the record found
Attach(p) ==
    /\ pc[p] = "attach"
    /\ IF loc[p].idx >= Len(lines)
       THEN /\ Goto(p, "panicked", loc[p])
            /\ UNCHANGED <<lines, ids>>
       ELSE /\ Goto(p, "unlock", loc[p])
            /\ lines' = [lines EXCEPT ![loc[p].idx + 1].Hostnames =
                             Append(@, Hostname(p))]
            /\ ids' = [ids EXCEPT ![loc[p].idx + 1] = p]
    /\ UNCHANGED <<mutex, seqVars>>

\* lines 282, 366, 393, 411: append reads h.HostsFileLines
ReadLines(p) ==
    /\ pc[p] = "read"
    /\ Goto(p, "write", [loc[p] EXCEPT !.snap = lines, !.snapIds = ids])
    /\ UNCHANGED <<lines, ids, mutex, seqVars>>

\* lines 282, 366, 393, 411: the extended sequence is assigned to
\* h.HostsFileLines
WriteLines(p) ==
    /\ pc[p] = "write"
    /\ lines' = Append(loc[p].snap, loc[p].rec)
    /\ ids' = Append(loc[p].snapIds, p)
    /\ Goto(p, IF mutex = p THEN "unlock" ELSE "done", loc[p])
    /\ UNCHANGED <<mutex, seqVars>>

\* what a Comment.../Uncomment... call does between Lock and the deferred
\* Unlock
ToggleBody(ls, call) ==
    CASE call.name = "CommentByRow" -> CommentByRowBody(ls, call.row)
      [] call.name = "CommentByIP" -> CommentByIPBody(ls, call.ip)
      [] call.name = "CommentByAddress" -> CommentByAddressBody(ls, call.ipRaw)
      [] call.name = "CommentByHostname" -> CommentByHostnameBody(ls, call.fqdnRaw)
      [] call.name = "UncommentByRow" -> UncommentByRowBody(ls, call.row)
      [] call.name = "UncommentByIP" -> UncommentByIPBody(ls, call.ip)
      [] call.name = "UncommentByAddress" -> UncommentByAddressBody(ls, call.ipRaw)
      [] call.name = "UncommentByHostname" ->
            UncommentByHostnameBody(ls, call.fqdnRaw)

Toggle(p) ==
    /\ pc[p] = "toggle"
    /\ LET r == ToggleBody(lines, loc[p].call)
       IN IF r.panic
          THEN /\ Goto(p, "panicked", loc[p])
               /\ mutex' = free
               /\ UNCHANGED lines
          ELSE /\ Goto(p, "unlock", loc[p])
               /\ lines' = r.lines
               /\ UNCHANGED mutex
    /\ UNCHANGED <<ids, seqVars>>

\* the arguments of the callers: caller p works with its own address and
\* hostname when the calls are to be independent of each other
CallerIP == <<"10.0.0.1", "10.0.0.2">>
CallerHost == <<"a", "B">>

\* one appending call of caller p
AppendCalls(p) ==
    {[NoCall EXCEPT !.name = name, !.ipRaw = CallerIP[p], !.fqdnRaw = CallerHost[p]] :
        name \in {"AddHostRaw", "AddHost"}}
    \cup {[NoCall EXCEPT !.name = name] : name \in {"AddComment", "AddEmpty"}}

\* two callers, each about to append a record of its own to the empty
\* document or to a document of one COMMENT record
InitAppenders ==
    \E ls \in {<<>>, AddCommentBody(<<>>).lines} :
        \E c1 \in AppendCalls(1), c2 \in AppendCalls(2) :
            Started(ls, <<c1, c2>>)

NextAppenders ==
    \E p \in Procs :
        \/ Acquire(p)
        \/ Release(p)
        \/ Lookup(p)
        \/ Scan(p)
        \/ ReadLines(p)
        \/ WriteLines(p)

SpecAppenders == InitAppenders /\ [][NextAppenders]_vars

\* the documents the concurrent callers start on: the empty document,
\* [10.0.0.1 -> [a, b]] and [10.0.0.1 -> [a]], [10.0.0.2 -> [b]]
Documents ==
    {<<>>,
     AddHostBody(AddHostBody(<<>>, "10.0.0.1", "a", "").lines,
                 "10.0.0.1", "B", "").lines,
     AddHostBody(AddHostBody(<<>>, "10.0.0.1", "a", "").lines,
                 "10.0.0.2", "B", "").lines}

\* the calls a caller makes on the document ls, with rows of ls
LockingCalls(ls) ==
    {[NoCall EXCEPT !.name = "AddHost", !.ipRaw = ipRaw, !.fqdnRaw = fqdnRaw,
                    !.comment = comment] :
        ipRaw \in {CallerIP[1], CallerIP[2]}, fqdnRaw \in HostStrings,
        comment \in CommentStrings}
    \cup {[NoCall EXCEPT !.name = name] : name \in {"AddComment", "AddEmpty"}}
    \cup {[NoCall EXCEPT !.name = name, !.row = row] :
            name \in {"RemoveRow", "CommentByRow", "UncommentByRow"},
            row \in 0..(Len(ls) - 1)}
    \cup {[NoCall EXCEPT !.name = name, !.ip = ip] :
            name \in {"CommentByIP", "UncommentByIP"}, ip \in IPValues \ {nil}}
    \cup {[NoCall EXCEPT !.name = name, !.ipRaw = address] :
            name \in {"CommentByAddress", "UncommentByAddress"},
            address \in AddressStrings \ {"bad"}}
    \cup {[NoCall EXCEPT !.name = name, !.fqdnRaw = hostname] :
            name \in {"CommentByHostname", "UncommentByHostname"},
            hostname \in {"a"}}

InitCallers ==
    \E ls \in Documents :
        \E c1 \in LockingCalls(ls), c2 \in LockingCalls(ls) :
            Started(ls, <<c1, c2>>)

Proc(p) ==
    \/ Acquire(p)
    \/ Release(p)
    \/ Lookup(p)
    \/ WriteComment(p)
    \/ Range(p)
    \/ Loop(p)
    \/ Len321(p)
    \/ Cut(p)
    \/ Len328(p)
    \/ Remove(p)
    \/ Scan(p)
    \/ Attach(p)
    \/ ReadLines(p)
    \/ WriteLines(p)
    \/ Toggle(p)

NextCallers == \E p \in Procs : Proc(p)

SpecCallers == InitCallers /\ [][NextCallers]_vars

\* the Go scheduler lets every goroutine that can run take its next step
FairSpecCallers == SpecCallers /\ \A p \in Procs : WF_vars(Proc(p))

----------------------------------------------------------------------------
(* vocabulary of the properties *)

\* the places <<row, position>> where hostname occurs in the document
Occurrences(ls, hostname) ==
    {p \in (0..(Len(ls) - 1)) \X (1..MaxSize) :
        /\ p[2] <= Len(ls[p[1] + 1].Hostnames)
        /\ ls[p[1] + 1].Hostnames[p[2]] = hostname}

\* the hostnames stored in the document
StoredNames(ls) ==
    {ls[i].Hostnames[k] : <<i, k>> \in
        {q \in (1..Len(ls)) \X (1..MaxSize) : q[2] <= Len(ls[q[1]].Hostnames)}}

\* the arguments of the last call as the operation sees them
OpHostname == ToLower(op.fqdnRaw)
OpIP == ParseIP(op.ipRaw)

\* the last call was name and it returned normally
Returned(name) == op.name = name /\ ~panicked

\* the last call was an AddHost that found its hostname on a record of pre
\* whose address differs from the requested one
Repointed ==
    /\ op.name = "AddHost"
    /\ OpIP # nil
    /\ LookupByHostname(pre, OpHostname).err = "nil"
    /\ ~IPEqual(LookupByHostname(pre, OpHostname).addr, OpIP)

\* the row of pre that AddHost found its hostname on
OldIdx == LookupByHostname(pre, OpHostname).idx

----------------------------------------------------------------------------
(* C1 - hostname uniqueness.  In a document built from the empty document   *)
(* by AddHost calls alone (SpecAddHost), every stored hostname occurs in    *)
(* the hostname list of at most one record and at most once in that list.  *)

C1_HostnameUniqueness ==
    \A hostname \in StoredNames(lines) :
        Cardinality(Occurrences(lines, hostname)) <= 1

\* a hostname has been moved from one address to another
C1_Witness ==
    /\ Repointed
    /\ Returned("AddHost")
    /\ ret.err = "nil"
    /\ Cardinality(Occurrences(lines, OpHostname)) = 1
    /\ lines[ret.idx + 1].Address # pre[OldIdx + 1].Address

----------------------------------------------------------------------------
(* C2 - when AddHost finds the hostname on a record with another address    *)
(* and that record holds k >= 2 hostnames, the record is still there after  *)
(* the call, at its row, with its address and with the other k-1 hostnames  *)
(* in their original order.                                                 *)

C2_DetachKeepsOtherHostnames ==
    (/\ Repointed
     /\ Len(pre[OldIdx + 1].Hostnames) >= 2)
    => /\ ~panicked
       /\ Len(lines) > OldIdx
       /\ lines[OldIdx + 1].Address = pre[OldIdx + 1].Address
       /\ lines[OldIdx + 1].Hostnames =
              SelectSeq(pre[OldIdx + 1].Hostnames, LAMBDA hn : hn # OpHostname)

----------------------------------------------------------------------------
(* C3 - no orphan records.  After any sequence of AddHost, AddHostRaw,      *)
(* AddComment, AddEmpty, RemoveRow and Comment.../Uncomment... calls on the *)
(* empty document, every ADDRESS record has a non-empty hostname list.      *)

C3_NoOrphanRecords ==
    \A i \in 1..Len(lines) :
        lines[i].LineType = ADDRESS => lines[i].Hostnames # <<>>

\* AddHost has taken a hostname off a record that is no longer in the
\* document, while other ADDRESS records remain
C3_Witness ==
    /\ Repointed
    /\ Returned("AddHost")
    /\ Len(pre[OldIdx + 1].Hostnames) = 1
    /\ \A i \in 1..Len(lines) : lines[i].Address # pre[OldIdx + 1].Address
    /\ \E i \in 1..Len(lines) : lines[i].LineType = ADDRESS

----------------------------------------------------------------------------
(* C4 - what a successful AddHost returns.                                  *)

\* the document once AddHost has dealt with the old record of its hostname
AfterDetachment ==
    IF Repointed THEN DetachHostname(pre, OldIdx, OpHostname).lines ELSE pre

\* the first record of pre that holds the hostname already has the address
AlreadyAssociated ==
    /\ op.name = "AddHost"
    /\ OpIP # nil
    /\ LookupByHostname(pre, OpHostname).err = "nil"
    /\ IPEqual(LookupByHostname(pre, OpHostname).addr, OpIP)

\* the returned index is a row of the document, an ADDRESS record with the
\* requested address whose hostname list holds the hostname
ReturnsTheRecord ==
    /\ ret.idx \in 0..(Len(lines) - 1)
    /\ lines[ret.idx + 1].LineType = ADDRESS
    /\ IPEqual(lines[ret.idx + 1].Address, OpIP)
    /\ \E k \in 1..Len(lines[ret.idx + 1].Hostnames) :
           lines[ret.idx + 1].Hostnames[k] = OpHostname

\* a new record at the end, or the hostname appended to the first record
\* that has the address
CreatedOrAppended ==
    IF RowsWithIP(AfterDetachment, OpIP) = {}
    THEN /\ lines = Append(AfterDetachment,
                           [LineType |-> ADDRESS, Address |-> OpIP,
                            Hostnames |-> <<OpHostname>>,
                            Comment |-> op.comment, IsCommented |-> FALSE])
         /\ ret.idx = Len(lines) - 1
    ELSE /\ ret.idx = Min(RowsWithIP(AfterDetachment, OpIP))
         /\ Len(lines) = Len(AfterDetachment)
         /\ lines[ret.idx + 1].Hostnames =
                Append(AfterDetachment[ret.idx + 1].Hostnames, OpHostname)

\* C4 as stated: every successful AddHost returns the index of an ADDRESS
\* record with the address and the hostname, and that record is either a
\* new last record <<lowercase(h)>>, c, uncommented (no record had the
\* address after the detachment) or the first record with the address with
\* the hostname appended last.
C4_AddHostAppendsOrCreates ==
    (Returned("AddHost") /\ ret.err = "nil")
    => (ReturnsTheRecord /\ CreatedOrAppended)

\* C4 as amended: a successful AddHost returns the index of an ADDRESS
\* record with the address and the hostname; when the first record holding
\* the hostname already had the address it is that record with its hostname
\* list as it was, and otherwise it is created or appended to as stated.
C4_AddHostReturnsRecord ==
    (Returned("AddHost") /\ ret.err = "nil")
    => /\ ReturnsTheRecord
       /\ IF AlreadyAssociated
          THEN /\ ret.idx = LookupByHostname(pre, OpHostname).idx
               /\ Len(lines) = Len(pre)
               /\ lines[ret.idx + 1].Hostnames = pre[ret.idx + 1].Hostnames
          ELSE CreatedOrAppended

\* after a detachment the hostname was appended to a record that was there
C4_Witness ==
    /\ Repointed
    /\ Returned("AddHost")
    /\ ret.err = "nil"
    /\ RowsWithIP(AfterDetachment, OpIP) # {}
    /\ Len(lines[ret.idx + 1].Hostnames) = 2

----------------------------------------------------------------------------
(* C5 - AddHost(ip, h, c) when the first record holding lowercase(h)        *)
(* already has the address ip: no record is added or removed, every record *)
(* keeps its address and hostname list, and only the comment of that one   *)
(* record can change: it becomes c when c is not empty.                    *)

C5_SameAddressChangesOnlyComment ==
    AlreadyAssociated
    => /\ ~panicked
       /\ Len(lines) = Len(pre)
       /\ \A i \in 1..Len(pre) :
              IF i = OldIdx + 1
              THEN lines[i] = [pre[i] EXCEPT !.Comment =
                                  IF op.comment # "" THEN op.comment ELSE @]
              ELSE lines[i] = pre[i]

\* the call left a comment in place although it passed an empty one
C5_Witness ==
    /\ AlreadyAssociated
    /\ Returned("AddHost")
    /\ op.comment = ""
    /\ pre[OldIdx + 1].Comment # ""
    /\ OldIdx > 0

----------------------------------------------------------------------------
(* C6 - idempotent re-association: AddHost(ip, h, "") with a valid ip       *)
(* called again right after AddHost(ip, h, "") leaves the document as the  *)
(* first call left it.                                                      *)

C6_IdempotentReassociation ==
    (op.name = "AddHost" /\ again /\ op.comment = "" /\ OpIP # nil)
    => (~panicked /\ lines = pre)

----------------------------------------------------------------------------
(* C7 - AddHost and AddHostRaw with an address string that does not parse   *)
(* return index -1 and an error, and the document is as it was.             *)

C7_InvalidIPLeavesDocument ==
    (op.name \in {"AddHost", "AddHostRaw"} /\ OpIP = nil)
    => /\ ~panicked
       /\ ret.idx = -1
       /\ ret.err # "nil"
       /\ lines = pre

\* AddHost was given an unparsable address for a hostname the document holds
C7_Witness ==
    /\ Returned("AddHost")
    /\ OpIP = nil
    /\ RowsWithHostname(pre, OpHostname) # {}
    /\ op.comment # ""

----------------------------------------------------------------------------
(* C8 - RemoveRow(row) with row < 0 or row >= number of records does not    *)
(* crash and leaves the document unchanged.                                 *)

C8_RemoveRowOutOfRangeIsNoOp ==
    (op.name = "RemoveRow" /\ (op.row < 0 \/ op.row >= Len(pre)))
    => (~panicked /\ lines = pre)

----------------------------------------------------------------------------
(* C9 - RemoveRow(row) with 0 <= row < number of records removes exactly    *)
(* that record: the rows before it stay, the rows behind it move down by   *)
(* one.                                                                     *)

C9_RemoveRowRemovesThatRow ==
    (op.name = "RemoveRow" /\ 0 <= op.row /\ op.row < Len(pre))
    => /\ ~panicked
       /\ Len(lines) = Len(pre) - 1
       /\ \A i \in 1..Len(lines) :
              lines[i] = IF i <= op.row THEN pre[i] ELSE pre[i + 1]

\* a row with different rows on both sides was removed
C9_Witness ==
    /\ Returned("RemoveRow")
    /\ op.row = 1
    /\ Len(pre) = 3
    /\ pre[1] # pre[2]
    /\ pre[2] # pre[3]
    /\ pre[1] # pre[3]

----------------------------------------------------------------------------
(* C10 - Comment.../Uncomment... by hostname, IP or address string find the *)
(* first ADDRESS record with that key at whatever row it is, flip its      *)
(* IsCommented and return nil, or return the already-(un)commented error   *)
(* when the record is in that state.                                        *)

\* the ADDRESS rows of ls with the hostname
AddressRowsWithHostname(ls, hostname) ==
    {r \in RowsWithHostname(ls, hostname) : ls[r + 1].LineType = ADDRESS}

\* the ADDRESS rows of ls with the address
AddressRowsWithIP(ls, ip) ==
    {r \in RowsWithIP(ls, ip) : ls[r + 1].LineType = ADDRESS}

\* the call found rows and put the first of them in state want
Toggled(rows, want, already) ==
    rows # {}
    => /\ ~panicked
       /\ IF pre[Min(rows) + 1].IsCommented # want
          THEN /\ ret.err = "nil"
               /\ lines = [pre EXCEPT ![Min(rows) + 1].IsCommented = want]
          ELSE /\ ret.err = already
               /\ lines = pre

C10_ToggleFindsRecordAtAnyRow ==
    /\ op.name = "CommentByHostname"
       => Toggled(AddressRowsWithHostname(pre, op.fqdnRaw), TRUE,
                  "ErrAlredyCommentedLine")
    /\ op.name = "CommentByIP"
       => Toggled(AddressRowsWithIP(pre, op.ip), TRUE, "ErrAlredyCommentedLine")
    /\ op.name = "CommentByAddress"
       => Toggled(AddressRowsWithIP(pre, OpIP), TRUE, "ErrAlredyCommentedLine")
    /\ op.name = "UncommentByHostname"
       => Toggled(AddressRowsWithHostname(pre, op.fqdnRaw), FALSE,
                  "ErrAlredyUncommentedLine")
    /\ op.name = "UncommentByIP"
       => Toggled(AddressRowsWithIP(pre, op.ip), FALSE, "ErrAlredyUncommentedLine")
    /\ op.name = "UncommentByAddress"
       => Toggled(AddressRowsWithIP(pre, OpIP), FALSE, "ErrAlredyUncommentedLine")

----------------------------------------------------------------------------
(* C11 - when no record of the document has the key, CommentByIP,          *)
(* CommentByAddress, UncommentByIP and UncommentByAddress return           *)
(* ErrAddressNotFound, CommentByHostname and UncommentByHostname return    *)
(* ErrHostnameNotFound, on any document, the empty one included, and the   *)
(* document is left as it was.                                             *)

\* the call looked for a key that no row of pre has: it reports err
NotFound(rows, err) ==
    rows = {}
    => /\ ~panicked
       /\ ret.err = err
       /\ lines = pre

C11_NotFoundErrors ==
    /\ op.name \in {"CommentByIP", "UncommentByIP"}
       => NotFound(RowsWithIP(pre, op.ip), "ErrAddressNotFound")
    /\ op.name \in {"CommentByAddress", "UncommentByAddress"}
       => NotFound(RowsWithIP(pre, OpIP), "ErrAddressNotFound")
    /\ op.name \in {"CommentByHostname", "UncommentByHostname"}
       => NotFound(RowsWithHostname(pre, op.fqdnRaw), "ErrHostnameNotFound")

----------------------------------------------------------------------------
(* C12 - CommentByRow(row) and UncommentByRow(row) with a row outside the   *)
(* document, row < 0 or row >= its length (row equal to the length         *)
(* included), return an error without a panic and leave the document as    *)
(* it was.                                                                 *)

C12_RowOutOfRangeIsAnError ==
    (/\ op.name \in {"CommentByRow", "UncommentByRow"}
     /\ op.row < 0 \/ op.row >= Len(pre))
    => /\ ~panicked
       /\ ret.err # "nil"
       /\ lines = pre

----------------------------------------------------------------------------
(* C13 - every Comment.../Uncomment... call, whether it succeeds or fails,  *)
(* leaves the number and order of the records and the LineType, Address,   *)
(* Hostnames and Comment of every record as they were; it changes the      *)
(* IsCommented of at most one record, and of none when it returns an       *)
(* error.                                                                  *)

ToggleNames ==
    {"CommentByRow", "CommentByIP", "CommentByAddress", "CommentByHostname",
     "UncommentByRow", "UncommentByIP", "UncommentByAddress",
     "UncommentByHostname"}

\* the rows whose IsCommented the last call changed
FlippedRows ==
    {r \in 0..(Len(pre) - 1) : lines[r + 1].IsCommented # pre[r + 1].IsCommented}

C13_ToggleChangesOnlyIsCommented ==
    op.name \in ToggleNames
    => /\ Len(lines) = Len(pre)
       /\ \A i \in 1..Len(pre) :
              /\ lines[i].LineType = pre[i].LineType
              /\ lines[i].Address = pre[i].Address
              /\ lines[i].Hostnames = pre[i].Hostnames
              /\ lines[i].Comment = pre[i].Comment
       /\ Cardinality(FlippedRows) <= 1
       /\ ret.err # "nil" => lines = pre

\* a call has commented one of two uncommented ADDRESS records
C13_Witness ==
    /\ op.name \in ToggleNames
    /\ ret.err = "nil"
    /\ Len(pre) >= 2
    /\ \A i \in 1..2 : pre[i].LineType = ADDRESS /\ ~pre[i].IsCommented
    /\ pre[1].Comment = "x"
    /\ FlippedRows = {0}

----------------------------------------------------------------------------
(* C14 - toggle symmetry.  For a row r of the document that holds an        *)
(* ADDRESS record, CommentByRow(r) followed by UncommentByRow(r) leaves     *)
(* IsCommented of record r equal to its value before the two calls and     *)
(* everything else in the document unchanged.                              *)

\* the last two calls were CommentByRow(r) and UncommentByRow(r) on a row r
\* that held an ADDRESS record
CommentedThenUncommented ==
    /\ op.name = "UncommentByRow"
    /\ again
    /\ op.row >= 0
    /\ op.row < Len(before)
    /\ before[op.row + 1].LineType = ADDRESS

C14_ToggleSymmetry ==
    CommentedThenUncommented
    => /\ ~panicked
       /\ lines = before

(* C14, amended - for a row r that holds an ADDRESS record, CommentByRow(r) *)
(* followed by UncommentByRow(r) leaves record r uncommented and           *)
(* everything else in the document unchanged; this is the document as it   *)
(* was before the two calls exactly when record r was not commented.       *)

C14_UncommentedAfterToggle ==
    CommentedThenUncommented
    => /\ ~panicked
       /\ ret.err = "nil"
       /\ lines = [before EXCEPT ![op.row + 1].IsCommented = FALSE]
       /\ pre = [before EXCEPT ![op.row + 1].IsCommented = TRUE]
       /\ (lines = before) = ~before[op.row + 1].IsCommented

\* the pair ran on a commented record that is not the first of the document
C14_Witness ==
    /\ CommentedThenUncommented
    /\ op.row = 1
    /\ before[2].IsCommented
    /\ ~lines[2].IsCommented

----------------------------------------------------------------------------
(* C17 - the lookups return the first match or not-found.                   *)
(* LookupByHostname(h) and GetHostsFileLineByHostname(h) return the        *)
(* smallest row whose hostname list holds exactly h;                       *)
(* GetHostsFileLineByIP and GetHostsFileLineByAddress return the smallest  *)
(* row whose address is equal to the key; when no ADDRESS record matches   *)
(* the key (an address string that does not parse and a hostname that      *)
(* differs only in case included) they return row -1, LookupByHostname     *)
(* with an error.                                                          *)

\* the lookup returned the first of rows, or -1 when there is none
FirstOf(rows) ==
    /\ ~panicked
    /\ lines = pre
    /\ ret.idx = IF rows # {} THEN Min(rows) ELSE -1

C17_LookupsReturnFirstMatch ==
    /\ op.name = "LookupByHostname"
       => /\ FirstOf(AddressRowsWithHostname(pre, op.fqdnRaw))
          /\ (ret.err = "nil") = (ret.idx # -1)
    /\ op.name = "GetHostsFileLineByHostname"
       => FirstOf(AddressRowsWithHostname(pre, op.fqdnRaw))
    /\ op.name = "GetHostsFileLineByIP"
       => FirstOf(AddressRowsWithIP(pre, op.ip))
    /\ op.name = "GetHostsFileLineByAddress"
       => FirstOf(AddressRowsWithIP(pre, OpIP))

----------------------------------------------------------------------------
(* C18 - after any sequence of operations with arbitrary arguments (an      *)
(* address that does not parse yields a nil IP, which is equal to the nil  *)
(* address of COMMENT and EMPTY records), IsCommented is true only on      *)
(* records whose LineType is ADDRESS.                                      *)

C18_OnlyAddressRecordsCommented ==
    \A i \in 1..Len(lines) : lines[i].IsCommented => lines[i].LineType = ADDRESS

----------------------------------------------------------------------------
(* C20 - a successful AddHostRaw(ip, h, c), AddComment or AddEmpty makes    *)
(* the document exactly one record longer, leaves the records that were    *)
(* there unchanged and in order, and returns the row of the new last       *)
(* record.  That record is an uncommented ADDRESS record with the address  *)
(* ip and the single hostname lowercase(h), whether or not h or ip was     *)
(* already in the document, or a COMMENT record, or an EMPTY record, the   *)
(* last two without address and hostnames.                                 *)

C20_AppendsExactlyOneRecord ==
    (/\ op.name \in {"AddHostRaw", "AddComment", "AddEmpty"}
     /\ ret.err = "nil")
    => /\ ~panicked
       /\ Len(lines) = Len(pre) + 1
       /\ SubSeq(lines, 1, Len(pre)) = pre
       /\ ret.idx = Len(lines) - 1
       /\ LET new == lines[Len(lines)]
          IN /\ ~new.IsCommented
             /\ op.name = "AddHostRaw"
                => /\ new.LineType = ADDRESS
                   /\ OpIP # nil
                   /\ new.Address = OpIP
                   /\ new.Hostnames = <<OpHostname>>
             /\ op.name = "AddComment"
                => /\ new.LineType = COMMENT
                   /\ new.Address = nil
                   /\ new.Hostnames = <<>>
             /\ op.name = "AddEmpty"
                => /\ new.LineType = EMPTY
                   /\ new.Address = nil
                   /\ new.Hostnames = <<>>

\* AddHostRaw has added a hostname, given in upper case, that the document
\* already held
C20_Witness ==
    /\ Returned("AddHostRaw")
    /\ ret.err = "nil"
    /\ op.fqdnRaw = "B"
    /\ OpHostname \in StoredNames(pre)
    /\ Cardinality(Occurrences(lines, OpHostname)) >= 2

----------------------------------------------------------------------------
(* C15 - concurrent appends are never lost.  When two concurrent callers    *)
(* have each completed one appending operation (AddHostRaw, AddHost        *)
(* creating a new record, AddComment, AddEmpty; SpecAppenders), the        *)
(* document is two records longer than before and holds the records that   *)
(* were there, in order, followed by both appended records.                *)

\* every concurrent caller has returned from its call
AllReturned == \A p \in Procs : pc[p] = "done"

C15_ConcurrentAppendsKept ==
    AllReturned
    => /\ Len(lines) = Len(pre) + 2
       /\ SubSeq(lines, 1, Len(pre)) = pre
       /\ \A p \in Procs :
              \E i \in (Len(pre) + 1)..Len(lines) : lines[i] = loc[p].rec

----------------------------------------------------------------------------
(* C16 - hostname uniqueness under concurrency.  When two concurrent       *)
(* AddHost calls for the same hostname h with two different addresses have *)
(* both returned, h is in the hostname list of at most one record.         *)

\* the two callers run AddHost for one hostname with two different addresses
SameHostnameTwoAddresses ==
    /\ \A p \in Procs : loc[p].call.name = "AddHost"
    /\ Hostname(1) = Hostname(2)
    /\ ~IPEqual(IP(1), IP(2))

C16_UniquenessUnderConcurrency ==
    (SameHostnameTwoAddresses /\ AllReturned)
    => Cardinality(RowsWithHostname(lines, Hostname(1))) <= 1

----------------------------------------------------------------------------
(* C19 - the lock discipline is deadlock-free.  Every call of the          *)
(* concurrent callers to AddHost, RemoveRow, AddComment, AddEmpty and      *)
(* Comment.../Uncomment..., made with rows of the document, releases the   *)
(* mutex on every path: the mutex is never held by a caller whose call has *)
(* ended, so that it is free whenever no call is in progress and, under    *)
(* fair scheduling (FairSpecCallers), no caller waits for it forever.      *)

\* the call of caller p has ended, by a return or by a panic
Ended(p) == pc[p] \in {"done", "panicked"}

C19_DeadlockFree ==
    \A p \in Procs : Ended(p) => mutex # p

====
